---- MODULE Spec2Model ----
(***************************************************************************)
(* Scan-degradation pipeline of databricks-custom-ocr-demo:                *)
(*   data_gen/scan_effects.py      effect table, per-page transform,       *)
(*                                 process_pdf, determine_quality,         *)
(*                                 process_pdf_batch                       *)
(*   data_gen/add_scan_effects.py  the command-line batch loop (main)      *)
(*                                                                         *)
(* Reals are carried in hundredths (0.95 is 95, 1.5 degrees is 150).       *)
(* An image is a record [mode, size, px]; px is one channel plane of the   *)
(* image as a sequence of 8-bit values (every stage treats the channels    *)
(* alike and independently, so one plane stands for each of them).         *)
(***************************************************************************)
EXTENDS Integers, Sequences, FiniteSets, TLC

\* ------------------------------------------------------------- bounds
\* Largest number of pixels of a page image.
MaxPix == 1
\* Largest number of candidate documents found on disk.
MaxDocs == 2
\* Largest number of pages a document rasterizes to.
MaxPages == 2
MaxCount == 3

VARIABLES
    \* ---- apply_scan_effects (one call)
    ipc,            \* "call" before the call, "returned" after it
    image_in,       \* the image argument
    quality_in,     \* the quality argument
    image_out,      \* the returned image
    stages,         \* the stages run, in order: [name, param, inp, out]
    rng_draws,      \* number of values drawn from the random sources
    \* ---- the pure functions (get_quality_params, determine_quality), one call
    lpc,            \* "call" before the call, then the name of the function called
    arg_quality,    \* the quality argument of the lookup
    arg_dist,       \* the distribution argument of determine_quality
    arg_rand,       \* the value random.random() returns, in hundredths
    ret,            \* [raised, value] returned by the call
    \* ---- process_pdf_batch and add_scan_effects.main (one run)
    caller,         \* "batch" (process_pdf_batch) or "main" (add_scan_effects.main)
    pc,             \* "start", "loop", "done", "no_pdfs", "raised"
    pdf_paths,      \* the candidate documents, in the order found
    percentage,     \* the percentage argument
    quality_distribution, \* process_pdf_batch's distribution argument
    args_quality,   \* main's --quality: "light", "heavy" or "mixed"
    selected,       \* the sample drawn, in the order the loop visits it
    done_count,     \* number of loop iterations completed
    processed_count,
    failed_count,
    results,        \* process_pdf_batch's results list
    files,          \* names of the files present in the output directory
    last_env,       \* what the document of the last iteration did to process_pdf
    calls,          \* the process_pdf calls made so far: [input, output, quality]
    last_doc,       \* what the last process_pdf call did with its quality argument
    quality_draws,  \* how many levels have been drawn so far
    \* ---- process_pdf (one call, page by page)
    ppc,            \* "call" before the call, "returned" after it
    p_env,          \* what the input document does to the call (see DocEnvs)
    p_bad,          \* the page whose transform raises (0: none)
    p_quality,      \* the quality argument
    p_before,       \* the file at output_path before the call
    p_file,         \* the file at output_path after the call
    p_ret,          \* the value returned
    p_draws,        \* the draws from the random generators the call made, in order
    \* ---- two invocations, each after seeding (a reproducibility test)
    spc,            \* "seed1", "call1", "seed2", "call2", "done"
    py_state,       \* state of the generator of Python's random module
    np_state,       \* state of numpy's global generator (np.random)
    s_seed,         \* the seed the caller uses both times
    s_sources,      \* the generators the caller seeds
    s_target,       \* the function invoked: "apply" or "select"
    s_quality,      \* quality argument of apply_scan_effects
    s_page,         \* the page given to apply_scan_effects
    s_dist,         \* the distribution given to determine_quality
    out1,           \* what the first invocation drew and returned
    out2,           \* what the second invocation drew and returned
    \* ---- document generation (test_generators and the batches of generate_all)
    gcaller,        \* "test" (test_generators) or "batch" (generate_*s of generate_all)
    gpc,            \* "loop", "done" (returned), "returned_false" (test only)
    gen_kind,       \* the generator of a batch
    g_count,        \* count argument of a batch
    g_start_seed,   \* start_seed argument of a batch
    g_i,            \* loop index: iterations completed
    generated,      \* the list a batch returns
    attempts,       \* the generator calls made so far
    g_files,        \* the output files that exist
    \* ---- the command-line loop and the notebook loop on the same inputs
    l_pc,           \* "start", "loop", "done"
    l_pdfs,         \* the candidate list both are given
    l_percentage,   \* the percentage both are given
    l_mode,         \* the quality mode both are given
    l_selected,     \* the sample both draw
    cli,            \* add_scan_effects.main: [pc, done_count, processed_count, failed_count, files, calls]
    nb              \* notebook 03: the same fields

imageVars == <<ipc, image_in, quality_in, image_out, stages, rng_draws>>
pureVars == <<lpc, arg_quality, arg_dist, arg_rand, ret>>
batchVars == <<caller, pc, pdf_paths, percentage, quality_distribution, args_quality,
               selected, done_count, processed_count, failed_count, results, files,
               last_env, calls, last_doc, quality_draws>>
pdfVars == <<ppc, p_env, p_bad, p_quality, p_before, p_file, p_ret, p_draws>>
seedVars == <<spc, py_state, np_state, s_seed, s_sources, s_target, s_quality,
              s_page, s_dist, out1, out2>>
genVars == <<gcaller, gpc, gen_kind, g_count, g_start_seed, g_i, generated, attempts,
             g_files>>
loopVars == <<l_pc, l_pdfs, l_percentage, l_mode, l_selected, cli, nb>>
vars == <<imageVars, pureVars, batchVars, pdfVars, seedVars, genVars, loopVars>>

\* ------------------------------------------------------------- helpers
Range(f) == {f[i] : i \in DOMAIN f}
Min(a, b) == IF a < b THEN a ELSE b
Max(a, b) == IF a > b THEN a ELSE b

\* np.clip(x, lo, hi)
Clip(x, lo, hi) == Max(lo, Min(hi, x))

\* A value stored in a 16-bit signed integer (dtype int16): wraps modulo 2^16.
Int16(x) == ((x + 32768) % 65536) - 32768

\* A value stored in an 8-bit unsigned integer (astype('uint8')): wraps modulo 2^8.
UInt8(x) == x % 256

Levels == {"pristine", "light", "heavy"}

\* ------------------------------------------------------------- SCAN_EFFECTS
\* scan_effects.py 32-51; blur, rotation and brightness in hundredths.
SCAN_EFFECTS ==
    [q \in Levels |->
        CASE q = "pristine" -> [noise |-> 0, blur |-> 0, rotation |-> 0, brightness |-> 100]
          [] q = "light" -> [noise |-> 5, blur |-> 50, rotation |-> 50, brightness |-> 95]
          [] q = "heavy" -> [noise |-> 15, blur |-> 150, rotation |-> 150, brightness |-> 85]]

\* config.py 167-186: the table of the same name in the configuration module,
\* keyed pristine, light_scan, heavy_scan; same units.
CONFIG_SCAN_EFFECTS ==
    [q \in {"pristine", "light_scan", "heavy_scan"} |->
        CASE q = "pristine" -> [noise |-> 0, blur |-> 0, rotation |-> 0, brightness |-> 100]
          [] q = "light_scan" -> [noise |-> 5, blur |-> 100, rotation |-> 50, brightness |-> 95]
          [] q = "heavy_scan" -> [noise |-> 15, blur |-> 200, rotation |-> 150, brightness |-> 85]]

\* The key of a level in config.SCAN_EFFECTS.
ConfigKey(level) ==
    CASE level = "light" -> "light_scan"
      [] level = "heavy" -> "heavy_scan"
      [] OTHER -> level

\* get_quality_params with a strict table index: an unknown level raises.
GetQualityParamsStrict(quality) ==
    IF quality \in DOMAIN SCAN_EFFECTS
    THEN [raised |-> FALSE, value |-> SCAN_EFFECTS[quality]]
    ELSE [raised |-> TRUE, value |-> "KeyError"]

\* get_quality_params that ignores its argument.
GetQualityParamsAlwaysLight(quality) ==
    [raised |-> FALSE, value |-> SCAN_EFFECTS["light"]]

\* get_quality_params (248-258): SCAN_EFFECTS.get(quality, SCAN_EFFECTS['light']).
\* dict.get never raises for a missing key: it returns the default.
GetQualityParams(quality) ==
    IF quality \in DOMAIN SCAN_EFFECTS
    THEN [raised |-> FALSE, value |-> SCAN_EFFECTS[quality]]
    ELSE [raised |-> FALSE, value |-> SCAN_EFFECTS["light"]]

\* ------------------------------------------------------------- image stages
\* np.random.randint(-intensity, intensity, ...): the upper end is exclusive.
NoiseOffsets(intensity) == (-intensity) .. (intensity - 1)

\* add_noise with the clip left out: the sum is cast to uint8 and wraps.
AddNoiseNoClip(px, noise) ==
    [i \in 1..Len(px) |-> UInt8(Int16(px[i] + noise[i]))]

\* add_noise (58-72): uint8 array + int16 noise is computed in int16, clipped
\* to [0, 255], then cast to uint8. noise is the array drawn by randint.
AddNoise(px, noise) ==
    [i \in 1..Len(px) |-> UInt8(Clip(Int16(px[i] + noise[i]), 0, 255))]

\* add_blur (75-86): Gaussian blur; radius 0 leaves the image as it is. The
\* kernel is carried as the three-tap weights 1-2-1 with the edge pixel repeated.
AddBlur(px, radius) ==
    IF radius = 0 THEN px
    ELSE [i \in 1..Len(px) |->
            LET l == px[Max(1, i - 1)]
                r == px[Min(Len(px), i + 1)]
            IN  (l + 2 * px[i] + r) \div 4]

\* adjust_brightness (89-101): ImageEnhance.Brightness blends the image with
\* black by factor; the 8-bit result is truncated and clipped to [0, 255].
AdjustBrightness(px, factor) ==
    [i \in 1..Len(px) |-> Clip((px[i] * factor) \div 100, 0, 255)]

\* add_rotation (104-115): rotate(angle, fillcolor='white', expand=False).
\* For a page of at most a few pixels and |angle| <= 1.5 degrees every output
\* pixel samples its own source pixel, so no pixel moves and none is filled.
AddRotation(px, angle) == px

\* The arguments apply_scan_effects passes to the stages (137-140, 144-147).
EFFECT_ARGS ==
    [q \in {"light", "heavy"} |->
        IF q = "light"
        THEN [noise |-> 5, blur |-> 50, brightness |-> 95, rotation |-> 50]
        ELSE [noise |-> 15, blur |-> 150, brightness |-> 85, rotation |-> 150]]

\* apply_scan_effects with brightness applied before blur.
StageOrderSwapped(quality) ==
    IF quality \in {"light", "heavy"}
    THEN <<"noise", "brightness", "blur", "rotation">>
    ELSE << >>

\* apply_scan_effects that degrades pristine pages like light ones.
StageOrderPristineDegraded(quality) ==
    IF quality \in {"pristine", "light", "heavy"}
    THEN <<"noise", "blur", "brightness", "rotation">>
    ELSE << >>

\* The stages apply_scan_effects runs for a quality, in program order (131-147):
\* none for pristine (early return) and for a quality no branch matches.
StageOrder(quality) ==
    IF quality \in {"light", "heavy"}
    THEN <<"noise", "blur", "brightness", "rotation">>
    ELSE << >>

\* One stage applied to px with its argument.
ApplyStage(name, px, param) ==
    CASE name = "noise" -> AddNoise(px, param)
      [] name = "blur" -> AddBlur(px, param)
      [] name = "brightness" -> AdjustBrightness(px, param)
      [] name = "rotation" -> AddRotation(px, param)

\* image = stage(image, ...) repeated over the order: every stage consumes the
\* image the previous one returned. params maps a stage name to its argument.
RECURSIVE RunStages(_, _, _)
RunStages(order, px, params) ==
    IF order = << >> THEN << >>
    ELSE LET name == Head(order)
             out == ApplyStage(name, px, params[name])
         IN  <<[name |-> name, param |-> params[name], inp |-> px, out |-> out]>>
             \o RunStages(Tail(order), out, params)

\* random.uniform drawn over a range wider than the level's bound.
AngleDrawsWide(bound) == {-bound - 50, 0, bound + 50}

\* random.uniform(-bound, bound), on the grid {-bound, 0, +bound}.
AngleDraws(bound) == {-bound, 0, bound}

\* apply_scan_effects without the conversion of heavy pages.
OutputModeNoConvert(quality, mode) == mode

\* The mode of the image apply_scan_effects returns for an input of mode
\* `mode`: the stages keep the mode, and the heavy branch converts to RGB
\* whatever is not RGB (149-150).
OutputMode(quality, mode) ==
    IF quality = "heavy" /\ mode # "RGB" THEN "RGB" ELSE mode

\* The stage arguments of a quality's branch. A quality without a branch runs
\* no stage and has none; it is given light's so that the expression is total.
ArgsOf(quality) ==
    IF quality \in DOMAIN EFFECT_ARGS THEN EFFECT_ARGS[quality] ELSE EFFECT_ARGS["light"]

PixelVals == {0, 3, 128, 250, 255}
Modes == {"L", "RGB", "RGBA"}
Images ==
    {[mode |-> m, size |-> Len(p), px |-> p] :
        m \in Modes, p \in UNION {[1..n -> PixelVals] : n \in 1..MaxPix}}
PipelineQualities == {"pristine", "light", "heavy", "light_scan"}

\* apply_scan_effects (118-152), the whole call.
ApplyScanEffects ==
    /\ ipc = "call"
    /\ ipc' = "returned"
    /\ LET order == StageOrder(quality_in)
           a == ArgsOf(quality_in)
       IN  IF order = << >>
           THEN /\ image_out' = image_in
                /\ stages' = << >>
                /\ rng_draws' = 0
           ELSE \E noise \in [1..Len(image_in.px) -> NoiseOffsets(a.noise)],
                   angle \in AngleDraws(a.rotation) :
                    LET params == [n \in {"noise", "blur", "brightness", "rotation"} |->
                                     CASE n = "noise" -> noise
                                       [] n = "blur" -> a.blur
                                       [] n = "brightness" -> a.brightness
                                       [] n = "rotation" -> angle]
                        tr == RunStages(order, image_in.px, params)
                        last == tr[Len(tr)].out
                    IN  /\ stages' = tr
                        /\ rng_draws' = Len(image_in.px) + 1
                        \* 149-150: heavy output is converted to RGB
                        /\ image_out' =
                             [mode |-> OutputMode(quality_in, image_in.mode),
                              size |-> image_in.size,
                              px |-> last]
    /\ UNCHANGED <<image_in, quality_in, pureVars, batchVars, pdfVars, seedVars, genVars, loopVars>>

\* ------------------------------------------------------------- determine_quality
\* SCAN_EFFECT_DISTRIBUTION (26-30), in dict order; weights in hundredths.
SCAN_EFFECT_DISTRIBUTION ==
    <<[key |-> "pristine", weight |-> 70],
      [key |-> "light_scan", weight |-> 20],
      [key |-> "heavy_scan", weight |-> 10]>>

\* quality returned as the dictionary spells it.
StripScanIdentity(key) == key

\* quality.replace('_scan', '') on the keys a distribution may hold.
StripScan(key) ==
    CASE key = "light_scan" -> "light"
      [] key = "heavy_scan" -> "heavy"
      [] key = "pristine_scan" -> "pristine"
      [] OTHER -> key

\* The loop with the comparison rand <= cumulative.
RECURSIVE WalkDistributionInclusive(_, _, _)
WalkDistributionInclusive(items, cumulative, rand) ==
    IF items = << >> THEN "light"
    ELSE LET c == cumulative + Head(items).weight
         IN  IF rand <= c THEN StripScan(Head(items).key)
             ELSE WalkDistributionInclusive(Tail(items), c, rand)

\* The for loop of determine_quality (240-245) from cumulative onwards.
RECURSIVE WalkDistribution(_, _, _)
WalkDistribution(items, cumulative, rand) ==
    IF items = << >> THEN "light"
    ELSE LET c == cumulative + Head(items).weight
         IN  IF rand < c THEN StripScan(Head(items).key)
             ELSE WalkDistribution(Tail(items), c, rand)

\* determine_quality (223-245). distribution is [given, items]: given is FALSE
\* for None. rand is the value of random.random().
DetermineQuality(distribution, rand) ==
    WalkDistribution(IF distribution.given THEN distribution.items
                     ELSE SCAN_EFFECT_DISTRIBUTION, 0, rand)

NoneDist == [given |-> FALSE, items |-> << >>]
Distributions ==
    {NoneDist,
     [given |-> TRUE, items |-> << >>],
     [given |-> TRUE, items |-> <<[key |-> "heavy", weight |-> 30]>>],
     [given |-> TRUE, items |-> <<[key |-> "light", weight |-> 50],
                                  [key |-> "heavy", weight |-> 50]>>],
     [given |-> TRUE, items |-> <<[key |-> "pristine", weight |-> 100],
                                  [key |-> "light_scan", weight |-> 100]>>],
     [given |-> TRUE, items |-> <<[key |-> "medium", weight |-> 60],
                                  [key |-> "heavy_scan", weight |-> 40]>>]}

\* random.random() in [0, 1), in hundredths, on a grid of twentieths.
RandDraws == {5 * i : i \in 0..19}

\* ------------------------------------------------------------- process_pdf
\* What a document does to process_pdf: convert_from_path raises
\* ("unreadable"), it rasterizes to no page ("no_pages"), the transform of a
\* page raises ("invalid_image"), the save raises ("write_error"), or nothing
\* raises ("ok"). pages is the number of pages rasterized.
DocEnvs ==
    {[kind |-> "unreadable", pages |-> 0], [kind |-> "no_pages", pages |-> 0]}
    \cup {[kind |-> k, pages |-> n] :
            k \in {"invalid_image", "write_error", "ok"}, n \in 1..MaxPages}

\* The message of the exception a document makes process_pdf catch (214):
\* it is printed (215) and the function returns False (216).
ExceptionMessage(env) ==
    CASE env.kind = "unreadable" -> "Unable to get page count."
      [] env.kind = "invalid_image" -> "cannot process this image"
      [] env.kind = "write_error" -> "cannot write output file"
      [] OTHER -> ""

\* process_pdf without its try/except: an exception leaves the function.
ProcessPdfNoCatch(env, quality) ==
    IF env.kind \in {"unreadable", "invalid_image", "write_error"}
    THEN [raised |-> TRUE, ret |-> FALSE, wrote |-> FALSE]
    ELSE [raised |-> FALSE, ret |-> TRUE, wrote |-> env.pages > 0]

\* process_pdf (159-216): [raised, ret, wrote]. Everything runs inside
\* try/except Exception, which returns False; the save is skipped when there
\* is no page (188) and True is returned all the same (212).
ProcessPdf(env, quality) ==
    CASE env.kind = "unreadable" -> [raised |-> FALSE, ret |-> FALSE, wrote |-> FALSE]
      [] env.kind = "invalid_image" -> [raised |-> FALSE, ret |-> FALSE, wrote |-> FALSE]
      [] env.kind = "write_error" -> [raised |-> FALSE, ret |-> FALSE, wrote |-> FALSE]
      [] env.kind = "no_pages" -> [raised |-> FALSE, ret |-> TRUE, wrote |-> FALSE]
      [] env.kind = "ok" -> [raised |-> FALSE, ret |-> TRUE, wrote |-> TRUE]

\* ------------------------------------------------------------- process_pdf, page by page
\* A file is [state, pages, jpeg_quality]: state is "absent", "old" (left by
\* an earlier run), "partial" (truncated by a save that raised) or "written".
NoFile == [state |-> "absent", pages |-> << >>, jpeg_quality |-> 0]
OldFile == [state |-> "old", pages |-> << >>, jpeg_quality |-> 0]
PartialFile == [state |-> "partial", pages |-> << >>, jpeg_quality |-> 0]

\* The lookup without its default: an unknown level leaves quality=None to the
\* encoder, which then uses its own default of 75.
JpegQualityNoDefault(quality) ==
    CASE quality = "pristine" -> 95
      [] quality = "light" -> 85
      [] quality = "heavy" -> 70
      [] OTHER -> 75

\* process_pdf 197-201: {'pristine': 95, 'light': 85, 'heavy': 70}.get(quality, 85)
JpegQuality(quality) ==
    CASE quality = "pristine" -> 95
      [] quality = "light" -> 85
      [] quality = "heavy" -> 70
      [] OTHER -> 85

\* apply_scan_effects called without the level, which then is its default.
TransformPageDefaultLevel(src, quality, angle) ==
    [src |-> src, quality |-> "light", rotated |-> TRUE, angle |-> angle]

\* apply_scan_effects(image, quality=quality) on input page src (184), as far
\* as the document is concerned: which page, at which level, rotated by what.
TransformPage(src, quality, angle) ==
    LET rotated == "rotation" \in {StageOrder(quality)[i] : i \in DOMAIN StageOrder(quality)}
    IN  [src |-> src, quality |-> quality, rotated |-> rotated,
         angle |-> IF rotated THEN angle ELSE 0]

\* process_pdf 182-185: the loop over the rasterized pages, in order.
\* angles[i] is the angle random.uniform returns in the call for page i.
ProcessedImages(n, quality, angles) ==
    [i \in 1..n |-> TransformPage(i, quality, angles[i])]

\* A save without save_all: only the first image is written.
SavedDocumentFirstOnly(rgb_images, quality) ==
    [state |-> "written", pages |-> <<rgb_images[1]>>,
     jpeg_quality |-> JpegQuality(quality)]

\* process_pdf 204-210: rgb_images[0].save(output_path, save_all=True,
\* append_images=rgb_images[1:], quality=jpeg_quality).
SavedDocument(rgb_images, quality) ==
    [state |-> "written",
     pages |-> <<rgb_images[1]>> \o SubSeq(rgb_images, 2, Len(rgb_images)),
     jpeg_quality |-> JpegQuality(quality)]

\* The files a save that raises may leave at output_path: the one that was
\* there (the open failed, or a file the save created was removed again), or a
\* truncated one when a file was there and had been opened for writing.
AfterFailedSave(before) ==
    IF before.state = "absent" THEN {before} ELSE {before, PartialFile}

\* One angle drawn for the document and used for every page.
PageAnglesPerDocument(n, quality) ==
    IF StageOrder(quality) = << >> THEN {[i \in 1..n |-> 0]}
    ELSE {[i \in 1..n |-> a] : a \in AngleDraws(ArgsOf(quality).rotation)}

\* The angles drawn for the n pages of one document at a level.
PageAngles(n, quality) ==
    IF StageOrder(quality) = << >> THEN {[i \in 1..n |-> 0]}
    ELSE [1..n -> AngleDraws(ArgsOf(quality).rotation)]

\* The draws one apply_scan_effects call makes for page i: none at a level
\* without a branch or at pristine; else np.random.randint for the noise of the
\* page (add_noise, 70) and then random.uniform for its angle (139, 146).
PageDraws(i, quality, angle) ==
    IF StageOrder(quality) = << >> THEN << >>
    ELSE <<[fn |-> "np.random.randint", page |-> i, value |-> 0],
           [fn |-> "random.uniform", page |-> i, value |-> angle]>>

\* The draws of the loop over the first n pages (182-185), in order.
RECURSIVE DrawLog(_, _, _)
DrawLog(n, quality, angles) ==
    IF n = 0 THEN << >>
    ELSE DrawLog(n - 1, quality, angles) \o PageDraws(n, quality, angles[n])

\* The pages whose transform returns: all of them, or those before the one
\* that raises; none when rasterization raises.
Transformed(env, bad) ==
    CASE env.kind \in {"unreadable", "no_pages"} -> 0
      [] env.kind = "invalid_image" -> bad - 1
      [] OTHER -> env.pages

\* A process_pdf that opens output_path for writing before it rasterizes.
FileAfterRaiseTruncating(kind, before) == {PartialFile}

\* The files that may be at output_path after process_pdf caught an exception:
\* rasterization (179) and the transforms (184) come before the save (204) and
\* touch no file; a save that raises leaves what AfterFailedSave says.
FileAfterRaise(kind, before) ==
    IF kind = "write_error" THEN AfterFailedSave(before) ELSE {before}

\* process_pdf (159-216), the whole call on the page level.
ProcessPdfCall ==
    /\ ppc = "call"
    /\ ppc' = "returned"
    /\ \E angles \in PageAngles(Transformed(p_env, p_bad), p_quality) :
        /\ p_draws' = DrawLog(Transformed(p_env, p_bad), p_quality, angles)
        /\ CASE p_env.kind \in {"unreadable", "invalid_image", "write_error"} ->
                   \* 179, 184 (for page p_bad) or 204 raises; 214-216
                   /\ p_ret' = FALSE
                   /\ p_file' \in FileAfterRaise(p_env.kind, p_before)
              [] p_env.kind = "no_pages" ->
                   \* 188 is false, 212
                   p_ret' = TRUE /\ p_file' = p_before
              [] p_env.kind = "ok" ->
                   /\ p_ret' = TRUE
                   /\ p_file' = SavedDocument(
                                   ProcessedImages(p_env.pages, p_quality, angles),
                                   p_quality)
    /\ UNCHANGED <<p_env, p_bad, p_quality, p_before, imageVars, pureVars, batchVars,
                   seedVars, genVars, loopVars>>

\* What one process_pdf call does with its quality argument: the level each
\* page it transforms is transformed at (184), and the encoding quality of the
\* save (197-210; 0 when nothing is saved). A document whose rasterization
\* raises, or that has no page, transforms nothing; one with a page whose
\* transform raises is counted up to its last page.
NoDoc == [page_levels |-> << >>, jpeg_quality |-> 0]
DocOf(env, quality) ==
    [page_levels |-> [i \in 1..env.pages |-> TransformPage(i, quality, 0).quality],
     jpeg_quality |-> IF env.kind \in {"ok", "write_error"}
                      THEN JpegQuality(quality) ELSE 0]

\* ------------------------------------------------------------- the batch loops
\* int(x / 100): true division, then truncation toward zero.
IntDiv100(x) == IF x >= 0 THEN x \div 100 ELSE -((-x) \div 100)

\* The sample size computed by rounding up.
SampleSizeCeil(n, p) == Min(IntDiv100(n * p + 99), n)

\* min(int(len(pdf_paths) * percentage / 100), len(pdf_paths))
\* (scan_effects.py 283-284, add_scan_effects.py 151-152).
SampleSize(n, p) == Min(IntDiv100(n * p), n)

\* k draws that may hit the same position twice (sampling with replacement).
SamplesWithReplacement(population, k) ==
    {[i \in 1..k |-> population[f[i]]] : f \in [1..k -> 1..Len(population)]}

\* random.sample(population, k): k distinct positions of population, in any order.
Samples(population, k) ==
    {[i \in 1..k |-> population[f[i]]] :
        f \in {g \in [1..k -> 1..Len(population)] :
                 \A i, j \in 1..k : i # j => g[i] # g[j]}}

\* f"scanned_{quality}_{filename}"
\* Strings that take part in a file name are sequences of tokens, the
\* underscore a token of its own; no other token holds an underscore.
QualityChars(quality) ==
    CASE quality = "light_scan" -> <<"light", "_", "scan">>
      [] quality = "heavy_scan" -> <<"heavy", "_", "scan">>
      [] quality = "pristine_scan" -> <<"pristine", "_", "scan">>
      [] OTHER -> <<quality>>

\* The name of the i-th candidate: a.pdf, light_a.pdf, light_light_a.pdf, ...
\* Candidates have different names, some of which begin like a level.
FileName(i) ==
    [j \in 1..(2 * (i - 1)) |-> IF j % 2 = 1 THEN "light" ELSE "_"] \o <<"a.pdf">>

\* An output name without the level.
OutputNameNoQuality(quality, filename) == <<"scanned", "_">> \o filename

\* f"scanned_{quality}_{filename}" (scan_effects 295, add_scan_effects 166).
OutputName(quality, filename) ==
    <<"scanned", "_">> \o QualityChars(quality) \o <<"_">> \o filename

\* A mixed mode that draws from all three levels.
MainQualitiesThreeWay(mode) ==
    IF mode = "mixed" THEN {"pristine", "light", "heavy"} ELSE {mode}

\* main 160-163: random.choice(['light', 'heavy']) under --quality mixed,
\* args.quality otherwise.
MainQualities(mode) ==
    IF mode = "mixed" THEN {"light", "heavy"} ELSE {mode}

Percentages == {0, 30, 34, 50, 67, 100, 150}
QualityModes == {"light", "heavy", "mixed"}
NoEnv == [kind |-> "none", pages |-> 0]

\* process_pdf_batch 283-288: draw the sample, zero the counters.
BatchSelect ==
    /\ caller = "batch" /\ pc = "start"
    /\ selected' \in Samples(pdf_paths, SampleSize(Len(pdf_paths), percentage))
    /\ pc' = "loop"
    /\ UNCHANGED <<caller, pdf_paths, percentage, quality_distribution, args_quality,
                   done_count, processed_count, failed_count, results, files, last_env, calls,
                   last_doc, quality_draws,
                   imageVars, pureVars, pdfVars, seedVars, genVars, loopVars>>

\* Counters that count a failure as processed too.
TallyBoth(processed, failed, success) ==
    [processed |-> processed + 1, failed |-> failed + (IF success THEN 0 ELSE 1)]

\* process_pdf_batch 309-312: if success: processed_count += 1, else:
\* failed_count += 1.
Tally(processed, failed, success) ==
    IF success THEN [processed |-> processed + 1, failed |-> failed]
    ELSE [processed |-> processed, failed |-> failed + 1]

\* process_pdf_batch 290-312: one iteration of the loop.
BatchIter ==
    /\ caller = "batch" /\ pc = "loop" /\ done_count < Len(selected)
    /\ \E rand \in RandDraws, env \in DocEnvs :
        LET filename == selected[done_count + 1]
            quality == DetermineQuality(quality_distribution, rand)
            output_filename == OutputName(quality, filename)
            r == ProcessPdf(env, quality)
        IN  /\ last_env' = env
            /\ calls' = Append(calls, [input |-> filename, output |-> output_filename,
                                       quality |-> quality])
            /\ last_doc' = DocOf(env, quality)
            /\ quality_draws' = quality_draws + 1
            /\ files' = IF r.wrote THEN files \cup {output_filename} ELSE files
            /\ IF r.raised
               THEN /\ pc' = "raised"
                    /\ UNCHANGED <<done_count, processed_count, failed_count, results>>
               ELSE /\ pc' = pc
                    /\ done_count' = done_count + 1
                    /\ results' = Append(results,
                                    [input |-> filename, output |-> output_filename,
                                     quality |-> quality, success |-> r.ret])
                    /\ processed_count' = Tally(processed_count, failed_count, r.ret).processed
                    /\ failed_count' = Tally(processed_count, failed_count, r.ret).failed
    /\ UNCHANGED <<caller, pdf_paths, percentage, quality_distribution, args_quality,
                   selected, imageVars, pureVars, pdfVars, seedVars, genVars, loopVars>>

\* process_pdf_batch 314: the loop is over, return.
BatchReturn ==
    /\ caller = "batch" /\ pc = "loop" /\ done_count = Len(selected)
    /\ pc' = "done"
    /\ UNCHANGED <<caller, pdf_paths, percentage, quality_distribution, args_quality,
                   selected, done_count, processed_count, failed_count, results, files,
                   last_env, calls, last_doc, quality_draws,
                   imageVars, pureVars, pdfVars, seedVars, genVars, loopVars>>

\* main 139-142: no candidate found, return before anything is selected.
MainNoPdfs ==
    /\ caller = "main" /\ pc = "start" /\ pdf_paths = << >>
    /\ pc' = "no_pdfs"
    /\ UNCHANGED <<caller, pdf_paths, percentage, quality_distribution, args_quality,
                   selected, done_count, processed_count, failed_count, results, files,
                   last_env, calls, last_doc, quality_draws,
                   imageVars, pureVars, pdfVars, seedVars, genVars, loopVars>>

\* main 150-156: draw the sample, zero the counters.
MainSelect ==
    /\ caller = "main" /\ pc = "start" /\ pdf_paths # << >>
    /\ selected' \in Samples(pdf_paths, SampleSize(Len(pdf_paths), percentage))
    /\ pc' = "loop"
    /\ UNCHANGED <<caller, pdf_paths, percentage, quality_distribution, args_quality,
                   done_count, processed_count, failed_count, results, files, last_env, calls,
                   last_doc, quality_draws,
                   imageVars, pureVars, pdfVars, seedVars, genVars, loopVars>>

\* main 158-181: the body of the loop for the document pdf_name, on the
\* loop's state st = [pc, done_count, processed_count, failed_count, files,
\* calls]. After a success the size of the output file is read with
\* output_path.stat() (178), which raises FileNotFoundError when no such file
\* exists; nothing in main catches it.
MainBody(st, pdf_name, quality, env) ==
    LET output_filename == OutputName(quality, pdf_name)
        r == ProcessPdf(env, quality)
        files_after == IF r.wrote THEN st.files \cup {output_filename} ELSE st.files
        called == [st EXCEPT !.files = files_after,
                             !.calls = Append(@, [input |-> pdf_name,
                                                  output |-> output_filename,
                                                  quality |-> quality])]
    IN  IF r.raised THEN [called EXCEPT !.pc = "raised"]
        ELSE IF r.ret
        THEN IF output_filename \in files_after
             THEN [called EXCEPT !.processed_count = @ + 1, !.done_count = @ + 1]
             ELSE [called EXCEPT !.processed_count = @ + 1, !.pc = "raised"]
        ELSE [called EXCEPT !.failed_count = @ + 1, !.done_count = @ + 1]

\* notebook 03, 181-220: the body of its loop, on the same kind of state.
\* process_pdf is called inside try/except Exception, which counts a failure;
\* the size of the output file is looked up in a listing, inside a bare
\* except, and a missing file is passed over.
NotebookBody(st, pdf_name, quality, env) ==
    LET output_filename == OutputName(quality, pdf_name)
        r == ProcessPdf(env, quality)
        files_after == IF r.wrote THEN st.files \cup {output_filename} ELSE st.files
        called == [st EXCEPT !.files = files_after,
                             !.calls = Append(@, [input |-> pdf_name,
                                                  output |-> output_filename,
                                                  quality |-> quality]),
                             !.done_count = @ + 1]
    IN  IF ~r.raised /\ r.ret
        THEN [called EXCEPT !.processed_count = @ + 1]
        ELSE [called EXCEPT !.failed_count = @ + 1]

\* main 158-181: one iteration of the loop.
MainIter ==
    /\ caller = "main" /\ pc = "loop" /\ done_count < Len(selected)
    /\ \E quality \in MainQualities(args_quality), env \in DocEnvs :
        LET st == [pc |-> pc, done_count |-> done_count,
                   processed_count |-> processed_count,
                   failed_count |-> failed_count, files |-> files, calls |-> calls]
            n == MainBody(st, selected[done_count + 1], quality, env)
        IN  /\ last_env' = env
            /\ last_doc' = DocOf(env, quality)
            /\ quality_draws' = quality_draws + (IF args_quality = "mixed" THEN 1 ELSE 0)
            /\ pc' = n.pc
            /\ done_count' = n.done_count
            /\ processed_count' = n.processed_count
            /\ failed_count' = n.failed_count
            /\ files' = n.files
            /\ calls' = n.calls
    /\ UNCHANGED <<caller, pdf_paths, percentage, quality_distribution, args_quality,
                   selected, results, imageVars, pureVars, pdfVars, seedVars, genVars,
                   loopVars>>

\* main 183-192: the loop is over, print the summary.
MainSummary ==
    /\ caller = "main" /\ pc = "loop" /\ done_count = Len(selected)
    /\ pc' = "done"
    /\ UNCHANGED <<caller, pdf_paths, percentage, quality_distribution, args_quality,
                   selected, done_count, processed_count, failed_count, results, files,
                   last_env, calls, last_doc, quality_draws,
                   imageVars, pureVars, pdfVars, seedVars, genVars, loopVars>>

\* ------------------------------------------------------------- the two loops side by side
\* main (add_scan_effects 150-192) and the notebook cell (03, 174-220) run on
\* the same candidates, percentage and mode, with the same draws and the same
\* process_pdf outcomes; each works on a file system of its own that starts
\* the same.
LoopStart(fs) ==
    [pc |-> "loop", done_count |-> 0, processed_count |-> 0, failed_count |-> 0,
     files |-> fs, calls |-> << >>]

\* main 139-156 and notebook 174-179: both draw the sample; main returns
\* before that when there is no candidate.
LoopsSelect ==
    /\ l_pc = "start"
    /\ l_pc' = "loop"
    /\ l_selected' \in Samples(l_pdfs, SampleSize(Len(l_pdfs), l_percentage))
    /\ cli' = IF l_pdfs = << >> THEN [cli EXCEPT !.pc = "no_pdfs"]
              ELSE [cli EXCEPT !.pc = "loop"]
    /\ nb' = [nb EXCEPT !.pc = "loop"]
    /\ UNCHANGED <<l_pdfs, l_percentage, l_mode,
                   imageVars, pureVars, batchVars, pdfVars, seedVars, genVars>>

\* The next document of the sample, with one draw of its level and one
\* process_pdf outcome given to both loops; a loop that has ended stays ended.
LoopsIter ==
    /\ l_pc = "loop" /\ nb.done_count < Len(l_selected)
    /\ \E quality \in MainQualities(l_mode), env \in DocEnvs :
        LET k == nb.done_count
            pdf_name == l_selected[k + 1]
        IN  /\ nb' = NotebookBody(nb, pdf_name, quality, env)
            /\ cli' = IF cli.pc = "loop" /\ cli.done_count = k
                      THEN MainBody(cli, pdf_name, quality, env) ELSE cli
    /\ UNCHANGED <<l_pc, l_pdfs, l_percentage, l_mode, l_selected,
                   imageVars, pureVars, batchVars, pdfVars, seedVars, genVars>>

\* main 183-192 and notebook 225-232: the summaries.
LoopsSummary ==
    /\ l_pc = "loop" /\ nb.done_count = Len(l_selected)
    /\ l_pc' = "done"
    /\ nb' = [nb EXCEPT !.pc = "done"]
    /\ cli' = IF cli.pc = "loop" THEN [cli EXCEPT !.pc = "done"] ELSE cli
    /\ UNCHANGED <<l_pdfs, l_percentage, l_mode, l_selected,
                   imageVars, pureVars, batchVars, pdfVars, seedVars, genVars>>

\* ------------------------------------------------------------- pure lookups
QualityArgs ==
    {"pristine", "light", "heavy", "light_scan", "heavy_scan", "medium", "Light", ""}

CallGetQualityParams ==
    /\ lpc = "call"
    /\ lpc' = "get_quality_params"
    /\ ret' = GetQualityParams(arg_quality)
    /\ UNCHANGED <<arg_quality, arg_dist, arg_rand, imageVars, batchVars, pdfVars, seedVars, genVars, loopVars>>

CallDetermineQuality ==
    /\ lpc = "call"
    /\ lpc' = "determine_quality"
    /\ ret' = [raised |-> FALSE, value |-> DetermineQuality(arg_dist, arg_rand)]
    /\ UNCHANGED <<arg_quality, arg_dist, arg_rand, imageVars, batchVars, pdfVars, seedVars, genVars, loopVars>>

\* ------------------------------------------------------------- the random sources
\* The module draws from two process-wide generators: numpy's (np.random.randint
\* in add_noise, 70) and Python's (random.uniform in apply_scan_effects, 139 and
\* 146; random.random in determine_quality, 237). A generator is a state in
\* RngStates; a draw is a function of the state and moves it on by one.
RngStates == 0..5
Seeds == {1, 2}
RngSeeded(seed) == (2 * seed) % 6
RngStep(state, n) == (state + n) % 6

\* np.random.randint(-intensity, intensity, shape): one draw per value.
NoiseFrom(intensity, state, n) ==
    [i \in 1..n |-> ((3 * RngStep(state, i - 1)) % (2 * intensity)) - intensity]

\* random.uniform(-bound, bound), on the grid of AngleDraws.
AngleFrom(bound, state) == ((state % 3) - 1) * bound

\* random.random(), on the grid of RandDraws.
RandFrom(state) == 5 * ((7 * state) % 20)

\* random.seed(seed) sets Python's generator only; numpy's is set only by a
\* np.random.seed(seed) of the caller.
SeedNumpy(sources, seed, state) ==
    IF sources = "random+numpy" THEN RngSeeded(seed) ELSE state

\* The caller seeds: random.seed(s_seed), and np.random.seed(s_seed) if it
\* seeds both.
SeedSources ==
    /\ spc \in {"seed1", "seed2"}
    /\ spc' = (IF spc = "seed1" THEN "call1" ELSE "call2")
    /\ py_state' = RngSeeded(s_seed)
    /\ np_state' = SeedNumpy(s_sources, s_seed, np_state)
    /\ UNCHANGED <<s_seed, s_sources, s_target, s_quality, s_page, s_dist, out1, out2,
                   imageVars, pureVars, batchVars, pdfVars, genVars, loopVars>>

NoOut == [noise |-> << >>, angle |-> 0, level |-> "none", px |-> << >>]

\* apply_scan_effects(image, quality) (118-152) reading the two generators.
ApplyFromSources(px, quality, py, np) ==
    LET order == StageOrder(quality)
        a == ArgsOf(quality)
    IN  IF order = << >> THEN [noise |-> << >>, angle |-> 0, level |-> "none", px |-> px]
        ELSE LET noise == NoiseFrom(a.noise, np, Len(px))
                 angle == AngleFrom(a.rotation, py)
                 params == [n \in {"noise", "blur", "brightness", "rotation"} |->
                              CASE n = "noise" -> noise
                                [] n = "blur" -> a.blur
                                [] n = "brightness" -> a.brightness
                                [] n = "rotation" -> angle]
                 tr == RunStages(order, px, params)
             IN  [noise |-> noise, angle |-> angle, level |-> "none",
                  px |-> tr[Len(tr)].out]

\* One invocation under test: apply_scan_effects(s_page, s_quality) or
\* determine_quality(s_dist).
InvokeSeeded ==
    /\ spc \in {"call1", "call2"}
    /\ spc' = (IF spc = "call1" THEN "seed2" ELSE "done")
    /\ LET out == IF s_target = "apply"
                  THEN ApplyFromSources(s_page, s_quality, py_state, np_state)
                  ELSE [noise |-> << >>, angle |-> 0, px |-> << >>,
                        level |-> DetermineQuality(s_dist, RandFrom(py_state))]
           drew == s_target = "select" \/ StageOrder(s_quality) # << >>
       IN  /\ IF spc = "call1" THEN out1' = out /\ out2' = out2
                               ELSE out2' = out /\ out1' = out1
           /\ py_state' = IF drew THEN RngStep(py_state, 1) ELSE py_state
           /\ np_state' = IF s_target = "apply" /\ StageOrder(s_quality) # << >>
                          THEN RngStep(np_state, Len(s_page)) ELSE np_state
    /\ UNCHANGED <<s_seed, s_sources, s_target, s_quality, s_page, s_dist,
                   imageVars, pureVars, batchVars, pdfVars, genVars, loopVars>>

\* ------------------------------------------------------------- the document generators
\* Python's + on the types the generators add: a number to a number, a
\* timedelta to a datetime; anything else is a TypeError.
PyAdd(left, right) ==
    CASE left \in {"int", "float"} /\ right \in {"int", "float"} ->
            (IF left = "int" /\ right = "int" THEN "int" ELSE "float")
      [] left = "datetime" /\ right = "timedelta" -> "datetime"
      [] left = "timedelta" /\ right = "datetime" -> "datetime"
      [] left = "timedelta" /\ right = "timedelta" -> "timedelta"
      [] OTHER -> "TypeError"

GeneratorKinds == <<"loan_agreement", "term_sheet", "financial_statement">>

\* The steps of a generator in the order of its body, doc.build last
\* (loan_agreements 38-74, term_sheets 39-65, financial_statements 37-67).
GeneratorSteps(kind) ==
    CASE kind = "loan_agreement" ->
            <<"_generate_loan_parameters", "create_pdf_document", "get_custom_styles",
              "_add_title_page", "_add_parties_section", "_add_facility_terms",
              "_add_conditions_precedent", "_add_covenants_section",
              "_add_security_section", "_add_representations", "_add_schedules",
              "add_signature_block", "add_footer_disclaimer", "doc.build">>
      [] kind = "term_sheet" ->
            <<"_generate_term_sheet_parameters", "create_pdf_document",
              "get_custom_styles", "_add_header", "_add_transaction_summary",
              "_add_key_terms", "_add_borrower_profile", "_add_security_details",
              "_add_broker_recommendation", "_add_next_steps", "_add_disclaimer",
              "doc.build">>
      [] kind = "financial_statement" ->
            <<"_generate_financial_parameters", "create_pdf_document",
              "get_custom_styles", "_add_cover_page", "_add_profit_loss_statement",
              "_add_balance_sheet", "_add_notes", "doc.build">>

\* The type of the value a date helper of a step works out.
\* loan_agreements 88: agreement_date + timedelta(days=...)
\* term_sheets 80: term_sheet_date + timedelta(days=...)
\* financial_statements 409: params['year_end'] + random.randint(60, 120) * 24 * 60 * 60
\* where agreement_date, term_sheet_date and year_end are datetimes
\* (config.random_date_range).
StepDateType(step) ==
    CASE step = "_generate_loan_parameters" -> PyAdd("datetime", "timedelta")
      [] step = "_generate_term_sheet_parameters" -> PyAdd("datetime", "timedelta")
      [] step = "_add_notes" -> PyAdd("datetime", "int")
      [] OTHER -> "none"

\* Whether a step raises: on a TypeError of its own, or, for doc.build, when
\* the file cannot be written.
StepRaises(step, env) ==
    \/ StepDateType(step) = "TypeError"
    \/ (step = "doc.build" /\ env = "build_error")

\* The steps a call runs: up to and including the first that raises.
RECURSIVE StepsRun(_, _)
StepsRun(steps, env) ==
    IF steps = << >> THEN << >>
    ELSE IF StepRaises(Head(steps), env) THEN <<Head(steps)>>
    ELSE <<Head(steps)>> \o StepsRun(Tail(steps), env)

\* generate_<kind>(output_path, seed): [raised, at, created]. The file is
\* created by doc.build; the parameters are returned when nothing raised.
Generate(kind, env) ==
    LET run == StepsRun(GeneratorSteps(kind), env)
        last == run[Len(run)]
        raised == StepRaises(last, env)
    IN  [raised |-> raised,
         at |-> IF raised THEN last ELSE "none",
         created |-> ~raised /\ last = "doc.build"]

GenEnvs == {"ok", "build_error"}

\* A batch that gives every document the first seed.
SeedOfFirst(start_seed, i) == start_seed

\* generate_all 70 (111, 153; notebook 188): seed = start_seed + i
SeedOf(start_seed, i) == start_seed + i

\* generate_all 68-87 (110-129, 152-171; notebook 187-222): one iteration of a
\* batch. An exception of the generator is caught and printed.
BatchGenIter ==
    /\ gcaller = "batch" /\ gpc = "loop" /\ g_i < g_count
    /\ \E env \in GenEnvs :
        LET seed == SeedOf(g_start_seed, g_i)
            r == Generate(gen_kind, env)
        IN  /\ attempts' = Append(attempts, [kind |-> gen_kind, index |-> g_i,
                                             seed |-> seed, env |-> env,
                                             raised |-> r.raised, at |-> r.at])
            /\ g_files' = IF r.created THEN g_files \cup {<<gen_kind, g_i + 1>>}
                          ELSE g_files
            /\ generated' = IF r.raised THEN generated
                            ELSE Append(generated, [type |-> gen_kind,
                                                    filename |-> <<gen_kind, g_i + 1>>,
                                                    seed |-> seed])
    /\ g_i' = g_i + 1
    /\ UNCHANGED <<gcaller, gpc, gen_kind, g_count, g_start_seed,
                   imageVars, pureVars, batchVars, pdfVars, seedVars, loopVars>>

\* generate_all 89 (131, 173; notebook 224-225): return generated.
BatchGenReturn ==
    /\ gcaller = "batch" /\ gpc = "loop" /\ g_i = g_count
    /\ gpc' = "done"
    /\ UNCHANGED <<gcaller, gen_kind, g_count, g_start_seed, g_i, generated, attempts,
                   g_files, imageVars, pureVars, batchVars, pdfVars, seedVars, loopVars>>

\* test_setup 70-98: one iteration of test_generators over its three tests;
\* a generator that raises, or an output file that does not exist, ends the
\* function with False; after the last test it returns True.
TestGenIter ==
    /\ gcaller = "test" /\ gpc = "loop" /\ g_i < Len(GeneratorKinds)
    /\ \E env \in GenEnvs :
        LET kind == GeneratorKinds[g_i + 1]
            r == Generate(kind, env)
            files_after == IF r.created THEN g_files \cup {<<kind, 0>>} ELSE g_files
        IN  /\ attempts' = Append(attempts, [kind |-> kind, index |-> g_i,
                                             seed |-> 9999, env |-> env,
                                             raised |-> r.raised, at |-> r.at])
            /\ g_files' = files_after
            /\ gpc' = IF r.raised \/ <<kind, 0>> \notin files_after
                      THEN "returned_false"
                      ELSE IF g_i + 1 = Len(GeneratorKinds) THEN "done" ELSE gpc
    /\ g_i' = g_i + 1
    /\ UNCHANGED <<gcaller, gen_kind, g_count, g_start_seed, generated,
                   imageVars, pureVars, batchVars, pdfVars, seedVars, loopVars>>

\* ------------------------------------------------------------- specifications
NoImage == [mode |-> "L", size |-> 0, px |-> << >>]
NoRet == [raised |-> FALSE, value |-> "none"]

ImageIdle ==
    /\ ipc = "idle" /\ image_in = NoImage /\ quality_in = "pristine"
    /\ image_out = NoImage /\ stages = << >> /\ rng_draws = 0

PureIdle ==
    /\ lpc = "idle" /\ arg_quality = "" /\ arg_dist = NoneDist /\ arg_rand = 0
    /\ ret = NoRet

BatchIdle ==
    /\ caller = "none" /\ pc = "idle" /\ pdf_paths = << >> /\ percentage = 0
    /\ quality_distribution = NoneDist /\ args_quality = "mixed"
    /\ selected = << >> /\ done_count = 0 /\ processed_count = 0
    /\ failed_count = 0 /\ results = << >> /\ files = {} /\ last_env = NoEnv
    /\ calls = << >> /\ last_doc = NoDoc /\ quality_draws = 0

LoopsIdle ==
    /\ l_pc = "idle" /\ l_pdfs = << >> /\ l_percentage = 0 /\ l_mode = "mixed"
    /\ l_selected = << >> /\ cli = LoopStart({}) /\ nb = LoopStart({})

GenIdle ==
    /\ gcaller = "none" /\ gpc = "idle" /\ gen_kind = "loan_agreement"
    /\ g_count = 0 /\ g_start_seed = 0 /\ g_i = 0
    /\ generated = << >> /\ attempts = << >> /\ g_files = {}

SeedIdle ==
    /\ spc = "idle" /\ py_state = 0 /\ np_state = 0 /\ s_seed = 0
    /\ s_sources = "random" /\ s_target = "apply" /\ s_quality = "pristine"
    /\ s_page = << >> /\ s_dist = NoneDist /\ out1 = NoOut /\ out2 = NoOut

PdfIdle ==
    /\ ppc = "idle" /\ p_env = NoEnv /\ p_bad = 0 /\ p_quality = "pristine"
    /\ p_before = NoFile /\ p_file = NoFile /\ p_ret = FALSE /\ p_draws = << >>

\* Both generators start in a state the caller does not know (numpy's is
\* seeded from the operating system when it is first used).
InitSeed ==
    /\ spc = "seed1"
    /\ py_state \in RngStates /\ np_state \in RngStates
    /\ s_seed \in Seeds
    /\ s_sources \in {"random", "random+numpy"}
    /\ s_target \in {"apply", "select"}
    /\ s_quality \in (IF s_target = "apply" THEN {"light", "heavy"} ELSE {"light"})
    /\ s_page \in (IF s_target = "apply"
                   THEN UNION {[1..n -> PixelVals] : n \in 1..MaxPix} ELSE {<< >>})
    /\ s_dist \in (IF s_target = "select" THEN Distributions ELSE {NoneDist})
    /\ out1 = NoOut /\ out2 = NoOut
    /\ ImageIdle /\ PureIdle /\ BatchIdle /\ PdfIdle /\ GenIdle /\ LoopsIdle

StartSeeds == {1000, 2000, 3000}

InitGen ==
    /\ gcaller \in {"test", "batch"}
    /\ gpc = "loop"
    /\ gen_kind \in (IF gcaller = "batch" THEN Range(GeneratorKinds)
                     ELSE {"loan_agreement"})
    /\ g_count \in (IF gcaller = "batch" THEN 0..MaxCount ELSE {0})
    /\ g_start_seed \in (IF gcaller = "batch" THEN StartSeeds ELSE {0})
    /\ g_i = 0
    /\ generated = << >> /\ attempts = << >> /\ g_files = {}
    /\ ImageIdle /\ PureIdle /\ BatchIdle /\ PdfIdle /\ SeedIdle /\ LoopsIdle

InitImage ==
    /\ ipc = "call"
    /\ image_in \in Images
    /\ quality_in \in PipelineQualities
    /\ image_out = NoImage
    /\ stages = << >>
    /\ rng_draws = 0
    /\ PureIdle /\ BatchIdle /\ PdfIdle /\ SeedIdle /\ GenIdle /\ LoopsIdle

InitPdf ==
    /\ ppc = "call"
    /\ p_env \in DocEnvs
    /\ p_bad \in (IF p_env.kind = "invalid_image" THEN 1..p_env.pages ELSE {0})
    /\ p_quality \in PipelineQualities
    /\ p_before \in {NoFile, OldFile}
    /\ p_file = p_before
    /\ p_ret = FALSE /\ p_draws = << >>
    /\ ImageIdle /\ PureIdle /\ BatchIdle /\ SeedIdle /\ GenIdle /\ LoopsIdle

InitPure ==
    /\ lpc = "call"
    /\ arg_quality \in QualityArgs
    /\ arg_dist \in Distributions
    /\ arg_rand \in RandDraws
    /\ ret = NoRet
    /\ ImageIdle /\ BatchIdle /\ PdfIdle /\ SeedIdle /\ GenIdle /\ LoopsIdle

\* The output directory before the run: empty, or holding a file a previous
\* run left for the first candidate.
InitialFiles == {{}, {OutputName("light", FileName(1))}}

InitLoops ==
    /\ l_pc = "start"
    /\ l_pdfs \in {[i \in 1..n |-> FileName(i)] : n \in 0..MaxDocs}
    /\ l_percentage \in Percentages
    /\ l_mode \in QualityModes
    /\ l_selected = << >>
    /\ \E fs \in InitialFiles :
          /\ cli = [LoopStart(fs) EXCEPT !.pc = "start"]
          /\ nb = [LoopStart(fs) EXCEPT !.pc = "start"]
    /\ ImageIdle /\ PureIdle /\ BatchIdle /\ PdfIdle /\ SeedIdle /\ GenIdle

InitBatch ==
    /\ caller \in {"batch", "main"}
    /\ pc = "start"
    /\ pdf_paths \in {[i \in 1..n |-> FileName(i)] : n \in 0..MaxDocs}
    /\ percentage \in Percentages
    /\ quality_distribution \in
         (IF caller = "batch"
          THEN {NoneDist,
                [given |-> TRUE, items |-> <<[key |-> "light", weight |-> 50],
                                             [key |-> "heavy", weight |-> 50]>>]}
          ELSE {NoneDist})
    /\ args_quality \in (IF caller = "main" THEN QualityModes ELSE {"mixed"})
    /\ selected = << >>
    /\ done_count = 0 /\ processed_count = 0 /\ failed_count = 0
    /\ results = << >>
    /\ files \in InitialFiles
    /\ last_env = NoEnv
    /\ calls = << >> /\ last_doc = NoDoc /\ quality_draws = 0
    /\ ImageIdle /\ PureIdle /\ PdfIdle /\ SeedIdle /\ GenIdle /\ LoopsIdle

NextImage == ApplyScanEffects
NextPure == CallGetQualityParams \/ CallDetermineQuality
NextBatch ==
    \/ BatchSelect \/ BatchIter \/ BatchReturn
    \/ MainNoPdfs \/ MainSelect \/ MainIter \/ MainSummary

SpecImage == InitImage /\ [][NextImage]_vars
SpecPure == InitPure /\ [][NextPure]_vars
NextPdf == ProcessPdfCall
SpecBatch == InitBatch /\ [][NextBatch]_vars
SpecPdf == InitPdf /\ [][NextPdf]_vars
NextGen == BatchGenIter \/ BatchGenReturn \/ TestGenIter
SpecGen == InitGen /\ [][NextGen]_vars
NextLoops == LoopsSelect \/ LoopsIter \/ LoopsSummary
SpecLoops == InitLoops /\ [][NextLoops]_vars
NextSeed == SeedSources \/ InvokeSeeded
SpecSeed == InitSeed /\ [][NextSeed]_vars

\* ------------------------------------------------------------- properties
FailedResults == {i \in 1..Len(results) : ~results[i].success}

C2_MainNeverLeavesLoopEarly ==
    caller = "main" => pc # "raised"

\* C3: a document that rasterizes to zero pages is a per-document failure:
\* process_pdf returns False for it, so its result has success = FALSE and it
\* is counted in failed_count.
C3_ZeroPagesIsFailure ==
    (caller = "batch" /\ done_count > 0 /\ last_env.kind = "no_pages")
        => (~results[done_count].success /\ failed_count > 0)

\* C4: for a percentage in [0, 100] the sample holds exactly
\* floor(n * percentage / 100) candidates; the sample never holds more than n,
\* and its elements are candidates and pairwise distinct.
C4_SampleSizeAndDistinct ==
    pc \in {"loop", "done", "raised"} =>
        LET n == Len(pdf_paths)
            k == Len(selected)
        IN  /\ k <= n
            /\ percentage \in 0..100 =>
                  (100 * k <= n * percentage /\ n * percentage < 100 * (k + 1))
            /\ \A i \in 1..k : selected[i] \in Range(pdf_paths)
            /\ \A i, j \in 1..k : i # j => selected[i] # selected[j]

\* C4 witness: a sample size that is rounded down (the largest candidate list
\* at 67 percent) and a sample of every candidate at 100 percent.
C4_Witness ==
    /\ pc = "loop" /\ Len(pdf_paths) = MaxDocs /\ percentage = 67
    /\ Len(selected) = (MaxDocs * 67) \div 100 /\ Len(selected) >= 1

\* C5: get_quality_params returns the canonical tuple of each level:
\* pristine (0, 0, 0, 1.00), light (5, 0.5, 0.5, 0.95), heavy (15, 1.5, 1.5, 0.85).
C5_CanonicalParams ==
    (lpc = "get_quality_params" /\ arg_quality \in Levels) =>
        /\ ~ret.raised
        /\ arg_quality = "pristine" =>
              ret.value = [noise |-> 0, blur |-> 0, rotation |-> 0, brightness |-> 100]
        /\ arg_quality = "light" =>
              ret.value = [noise |-> 5, blur |-> 50, rotation |-> 50, brightness |-> 95]
        /\ arg_quality = "heavy" =>
              ret.value = [noise |-> 15, blur |-> 150, rotation |-> 150, brightness |-> 85]

\* C5 witness: the lookup of heavy has returned.
C5_Witness ==
    /\ lpc = "get_quality_params" /\ arg_quality = "heavy"
    /\ ~ret.raised /\ ret.value.noise = 15

C7_PristineIdentity ==
    (ipc = "returned" /\ quality_in = "pristine") =>
        /\ image_out = image_in
        /\ stages = << >>
        /\ rng_draws = 0

\* C7 witness: a pristine call on a mid-grey page has returned.
C7_Witness ==
    /\ ipc = "returned" /\ quality_in = "pristine"
    /\ image_in.px[1] = 128 /\ image_out.px[1] = 128

\* C8: for light and heavy the stages run are noise, blur, brightness,
\* rotation, in this order and once each; the first consumes the argument,
\* each later one the output of the one before, each produces its own
\* function of what it consumes, and the last one's output is returned.
C8_StageOrder ==
    (ipc = "returned" /\ quality_in \in {"light", "heavy"}) =>
        /\ [i \in 1..Len(stages) |-> stages[i].name]
              = <<"noise", "blur", "brightness", "rotation">>
        /\ stages[1].inp = image_in.px
        /\ \A i \in 2..Len(stages) : stages[i].inp = stages[i - 1].out
        /\ stages[1].out = AddNoise(stages[1].inp, stages[1].param)
        /\ stages[2].out = AddBlur(stages[2].inp, EFFECT_ARGS[quality_in].blur)
        /\ stages[3].out = AdjustBrightness(stages[3].inp, EFFECT_ARGS[quality_in].brightness)
        /\ stages[4].out = AddRotation(stages[4].inp, stages[4].param)
        /\ image_out.px = stages[Len(stages)].out

\* C8 witness: a heavy call whose noise and brightness stages both changed the page.
C8_Witness ==
    /\ ipc = "returned" /\ quality_in = "heavy" /\ Len(stages) = 4
    /\ stages[1].out # stages[1].inp
    /\ stages[3].out # stages[3].inp

\* C9: the offsets the noise stage of intensity k can add are exactly the
\* integers -k..+k, both ends included.
C9_NoiseOffsetsSymmetric ==
    (ipc = "returned" /\ quality_in \in {"light", "heavy"}) =>
        LET k == EFFECT_ARGS[quality_in].noise
        IN  /\ \A i \in 1..Len(stages[1].param) : stages[1].param[i] \in (-k)..k
            /\ NoiseOffsets(k) = (-k)..k

\* The offsets the code adds lie in -k..k-1: +k is never drawn.
NoiseOffsetNeverPlusK ==
    (ipc = "returned" /\ quality_in \in {"light", "heavy"}) =>
        \A i \in 1..Len(stages[1].param) :
            stages[1].param[i] \in (-EFFECT_ARGS[quality_in].noise)
                                     .. (EFFECT_ARGS[quality_in].noise - 1)

\* C10: for an 8-bit page every value is in [0, 255] after the noise stage and
\* after the brightness stage; the noise stage yields the sum of value and
\* offset as integers (no wrap-around in the 16-bit sum) clamped to [0, 255].
C10_ChannelBounds ==
    (ipc = "returned" /\ quality_in \in {"light", "heavy"}) =>
        /\ \A i \in 1..Len(image_in.px) : image_in.px[i] \in 0..255
        /\ \A i \in 1..Len(stages[1].out) :
              /\ stages[1].out[i] \in 0..255
              /\ stages[1].out[i] =
                    Max(0, Min(255, stages[1].inp[i] + stages[1].param[i]))
        /\ \A i \in 1..Len(stages[3].out) : stages[3].out[i] \in 0..255

\* C10 witness: heavy noise pushed a white value above 255 and a black value
\* below 0 is clamped likewise; here the white one.
C10_Witness ==
    /\ ipc = "returned" /\ quality_in = "heavy"
    /\ stages[1].inp[1] = 255 /\ stages[1].param[1] = 14
    /\ stages[1].out[1] = 255

\* C11: every rotation angle applied lies within the bound of the level:
\* within [-1.5, 1.5] degrees for heavy, within [-0.5, 0.5] for light; a
\* pristine page is never rotated.
C11_RotationWithinBound ==
    ipc = "returned" =>
        /\ \A i \in 1..Len(stages) :
              stages[i].name = "rotation" =>
                 /\ quality_in = "heavy" => stages[i].param \in (-150)..150
                 /\ quality_in = "light" => stages[i].param \in (-50)..50
                 /\ quality_in \in {"light", "heavy"}
        /\ quality_in = "pristine" =>
              \A i \in 1..Len(stages) : stages[i].name # "rotation"

\* C11 witness: a heavy page rotated by the full 1.5 degrees.
C11_Witness ==
    /\ ipc = "returned" /\ quality_in = "heavy" /\ Len(stages) = 4
    /\ stages[4].name = "rotation" /\ stages[4].param = 150

\* C12: apply_scan_effects(page, 'heavy') returns an RGB image whatever the
\* mode of the page it is given.
C12_HeavyIsRGB ==
    (ipc = "returned" /\ quality_in = "heavy") => image_out.mode = "RGB"

\* C12 witness: a grayscale page came back from a heavy call as RGB.
C12_Witness ==
    /\ ipc = "returned" /\ quality_in = "heavy"
    /\ image_in.mode = "L" /\ image_out.mode = "RGB"

\* The page-level call returns what ProcessPdf says and leaves a written
\* file exactly when ProcessPdf says it wrote.
ProcessPdfAgrees ==
    ppc = "returned" =>
        /\ p_ret = ProcessPdf(p_env, p_quality).ret
        /\ (p_file.state = "written") = ProcessPdf(p_env, p_quality).wrote

\* C13: the encoding quality of a written document depends on its level
\* only: pristine 95, light 85, heavy 70, any other level 85.
C13_JpegQualityByLevel ==
    (ppc = "returned" /\ p_file.state = "written") =>
        p_file.jpeg_quality =
            (CASE p_quality = "pristine" -> 95
               [] p_quality = "light" -> 85
               [] p_quality = "heavy" -> 70
               [] OTHER -> 85)

\* C13 witness: a document written at the unrecognized level light_scan.
C13_Witness ==
    /\ ppc = "returned" /\ p_quality = "light_scan"
    /\ p_file.state = "written" /\ p_file.jpeg_quality = 85

\* C14: a document of n >= 1 pages that is read, transformed and saved
\* without an error yields one written document of exactly n pages, page i of
\* which is the transform of input page i at the level of the call.
C14_PagesPreserved ==
    (ppc = "returned" /\ p_env.kind = "ok") =>
        /\ p_ret
        /\ p_file.state = "written"
        /\ Len(p_file.pages) = p_env.pages
        /\ \A i \in 1..Len(p_file.pages) :
              /\ p_file.pages[i].src = i
              /\ p_file.pages[i].quality = p_quality

\* C14 witness: a heavy document of the largest page count, written with
\* all its pages.
C14_Witness ==
    /\ ppc = "returned" /\ p_quality = "heavy" /\ p_env.kind = "ok"
    /\ p_env.pages = MaxPages /\ Len(p_file.pages) = MaxPages
    /\ p_file.pages[MaxPages].src = MaxPages

\* The dictionary determine_quality iterates over, and its running sums.
EffectiveItems(distribution) ==
    IF distribution.given THEN distribution.items ELSE SCAN_EFFECT_DISTRIBUTION

RECURSIVE CumulativeWeight(_, _)
CumulativeWeight(items, i) ==
    IF i = 0 THEN 0 ELSE CumulativeWeight(items, i - 1) + items[i].weight

LevelOf(key) ==
    IF key \in {"pristine", "pristine_scan"} THEN "pristine"
    ELSE IF key \in {"light", "light_scan"} THEN "light"
    ELSE IF key \in {"heavy", "heavy_scan"} THEN "heavy"
    ELSE key

\* C15: determine_quality returns the level of the first entry, in
\* iteration order, whose cumulative weight is strictly greater than the draw,
\* and 'light' when no entry is (the draw is not below the sum of all weights,
\* or the distribution is empty); it never fails.
C15_CumulativeWalk ==
    lpc = "determine_quality" =>
        LET items == EffectiveItems(arg_dist)
            above == {i \in 1..Len(items) : arg_rand < CumulativeWeight(items, i)}
        IN  /\ ~ret.raised
            /\ above # {} =>
                  \E i \in above :
                      /\ \A j \in above : i <= j
                      /\ ret.value = LevelOf(items[i].key)
            /\ above = {} => ret.value = "light"

\* C15 witness: a draw of 0.30 against {heavy: 0.3} is not below the sum and
\* gets the default.
C15_Witness ==
    /\ lpc = "determine_quality"
    /\ arg_dist = [given |-> TRUE, items |-> <<[key |-> "heavy", weight |-> 30]>>]
    /\ arg_rand = 30
    /\ ret.value = "light"

\* The empty distribution gets the default as well.
EmptyDistributionGetsLight ==
    (lpc = "determine_quality" /\ arg_dist.given /\ arg_dist.items = << >>) =>
        ret.value = "light"

\* C16: for weights of sum S > 0 determine_quality behaves as if they
\* were normalized: the entry returned is the one whose share of the unit
\* interval, running sums divided by S, holds the draw.
C16_NormalizedShares ==
    lpc = "determine_quality" =>
        LET items == EffectiveItems(arg_dist)
            S == CumulativeWeight(items, Len(items))
        IN  S > 0 =>
              \E i \in 1..Len(items) :
                  /\ CumulativeWeight(items, i - 1) * 100 <= arg_rand * S
                  /\ arg_rand * S < CumulativeWeight(items, i) * 100
                  /\ ret.value = LevelOf(items[i].key)

C18_ModeLevels ==
    caller = "main" =>
        \A i \in 1..Len(calls) :
            /\ args_quality = "mixed" => calls[i].quality \in {"light", "heavy"}
            /\ args_quality \in {"light", "heavy"} => calls[i].quality = args_quality

\* C18 witness: a mixed run in which the first document drew light and the
\* second heavy.
C18_Witness ==
    /\ caller = "main" /\ args_quality = "mixed" /\ Len(calls) = 2
    /\ calls[1].quality = "light" /\ calls[2].quality = "heavy"

\* C19: every output name is scanned_{quality}_{original name} with the
\* level assigned to the document; no other pair of a level and a candidate
\* name gives the same output name, and two documents of different names never
\* get the same output name. The result of process_pdf_batch carries that name.
C19_OutputNameInvertible ==
    /\ \A i \in 1..Len(calls) :
          /\ calls[i].output = <<"scanned", "_", calls[i].quality, "_">> \o calls[i].input
          /\ \A q \in {"pristine", "light", "heavy"}, f \in Range(pdf_paths) :
                (<<"scanned", "_", q, "_">> \o f = calls[i].output)
                    => (q = calls[i].quality /\ f = calls[i].input)
          /\ \A j \in 1..Len(calls) :
                calls[j].input # calls[i].input => calls[j].output # calls[i].output
    /\ \A i \in 1..Len(results) :
          /\ results[i].output = calls[i].output
          /\ results[i].quality = calls[i].quality
          /\ results[i].input = calls[i].input

\* C19 witness: two documents named in one run, the second of which has a
\* name that begins like a level (light_a.pdf) and was assigned heavy.
C19_Witness ==
    /\ Len(calls) = 2
    /\ calls[2].input = <<"light", "_", "a.pdf">> /\ calls[2].quality = "heavy"
    /\ calls[1].input = <<"a.pdf">> /\ calls[1].quality = "light"

\* How often process_pdf was started for the k-th selected document.
Started(k) == Cardinality({i \in 1..Len(calls) : calls[i].input = selected[k]})

\* C20: when an invocation has ended, the processing of each selected
\* document has been started exactly once.
C20_StartedExactlyOnce ==
    pc \in {"done", "raised"} => \A k \in 1..Len(selected) : Started(k) = 1

\* No document is ever started twice, and documents are started in
\* selection order.
NeverReattempted ==
    /\ Len(calls) <= Len(selected)
    /\ \A i \in 1..Len(calls) : calls[i].input = selected[i]
    /\ \A k \in 1..Len(selected) : Started(k) <= 1

\* process_pdf_batch by itself starts every selected document exactly once.
BatchStartsEachOnce ==
    (caller = "batch" /\ pc = "done") => \A k \in 1..Len(selected) : Started(k) = 1

\* C21: two invocations of apply_scan_effects on the same page, or of
\* determine_quality on the same distribution, each made after seeding the
\* random source with the same seed, give identical outputs: the same noise
\* offsets, the same rotation angle, the same level.
C21_SeededRunsAgree ==
    spc = "done" => out1 = out2

\* Seeding random alone fixes whatever Python's generator feeds: the
\* rotation angle and the level.
SeededAngleAndLevelAgree ==
    spc = "done" => (out1.angle = out2.angle /\ out1.level = out2.level)

\* With numpy's generator seeded as well, the whole output is fixed.
BothSeededRunsAgree ==
    (spc = "done" /\ s_sources = "random+numpy") => out1 = out2

\* C22: each of the three generators, called with an output path and a
\* seed where the file can be written, runs all its steps without raising,
\* creates the output file and returns its parameters.
C22_GeneratorsSucceed ==
    \A i \in 1..Len(attempts) :
        attempts[i].env = "ok" =>
            /\ ~attempts[i].raised
            /\ <<attempts[i].kind, IF gcaller = "test" THEN 0 ELSE attempts[i].index + 1>>
                  \in g_files

\* The loan agreement and term sheet generators do; every call of the
\* financial statement generator raises in _add_notes and creates nothing.
FinancialStatementAlwaysRaises ==
    \A i \in 1..Len(attempts) :
        /\ attempts[i].kind = "financial_statement" =>
              (attempts[i].raised /\ attempts[i].at = "_add_notes")
        /\ (attempts[i].kind # "financial_statement" /\ attempts[i].env = "ok") =>
              ~attempts[i].raised

\* C28: in a generation batch an exception of the generator does not
\* stop the loop: the documents are attempted in index order, document i with
\* seed start_seed + i, the returned list holds one entry, in order, for each
\* document whose generation did not raise, and is never longer than count.
C28_GenerationBatch ==
    gcaller = "batch" =>
        /\ Len(attempts) = g_i /\ g_i <= g_count
        /\ \A k \in 1..Len(attempts) :
              /\ attempts[k].index = k - 1
              /\ attempts[k].seed = g_start_seed + (k - 1)
        /\ LET ok == {k \in 1..Len(attempts) : ~attempts[k].raised}
           IN  /\ Len(generated) = Cardinality(ok)
               /\ \A k \in ok :
                     \E n \in 1..Len(generated) :
                         /\ generated[n].seed = attempts[k].seed
                         /\ generated[n].filename = <<gen_kind, k>>
                         /\ n = Cardinality({m \in ok : m <= k})
        /\ Len(generated) <= g_count
        /\ gpc = "done" => Len(attempts) = g_count

\* C28 witness: a returned batch of three in which the second document
\* raised and the third was generated all the same.
C28_Witness ==
    /\ gcaller = "batch" /\ gpc = "done" /\ g_count = 3
    /\ attempts[2].raised /\ ~attempts[3].raised
    /\ Len(generated) = 2 /\ generated[2].seed = g_start_seed + 2

\* C23: both parameter tables hold the canonical values: for each level
\* the entry of config.SCAN_EFFECTS equals the canonical tuple that
\* scan_effects.SCAN_EFFECTS gives through get_quality_params.
C23_TablesAgree ==
    (lpc = "get_quality_params" /\ arg_quality \in Levels) =>
        /\ ConfigKey(arg_quality) \in DOMAIN CONFIG_SCAN_EFFECTS
        /\ CONFIG_SCAN_EFFECTS[ConfigKey(arg_quality)] = ret.value
        /\ ret.value = SCAN_EFFECTS[arg_quality]

\* The two tables agree in noise, rotation and brightness; they differ in blur.
TablesAgreeButBlur ==
    \A q \in Levels :
        LET c == CONFIG_SCAN_EFFECTS[ConfigKey(q)]
            e == SCAN_EFFECTS[q]
        IN  /\ c.noise = e.noise /\ c.rotation = e.rotation
            /\ c.brightness = e.brightness
            /\ (c.blur = e.blur) = (q = "pristine")

\* C24: the result recorded for a document whose processing raised has
\* success = FALSE and carries the message of the exception.
C24_FailedResultHasMessage ==
    (/\ caller = "batch" /\ done_count > 0
     /\ last_env.kind \in {"unreadable", "invalid_image", "write_error"})
    => /\ ~results[done_count].success
       /\ "error" \in DOMAIN results[done_count]
       /\ results[done_count].error = ExceptionMessage(last_env)

\* A result has the four fields input, output, quality and success, and a
\* failed one has success = FALSE; the message is printed by process_pdf and
\* returned to nobody.
ResultHasFourFields ==
    /\ \A i \in 1..Len(results) :
          DOMAIN results[i] = {"input", "output", "quality", "success"}
    /\ (/\ caller = "batch" /\ done_count > 0
        /\ last_env.kind \in {"unreadable", "invalid_image", "write_error"})
       => (~results[done_count].success /\ ExceptionMessage(last_env) # "")

\* C25: in process_pdf_batch one level is drawn per document, before
\* process_pdf is called, and that level is the one every page is transformed
\* at, the one that sets the encoding quality, the one in the output file name
\* and the one in the result.
C25_OneLevelPerDocument ==
    caller = "batch" =>
        /\ quality_draws = Len(calls)
        /\ Len(results) = Len(calls)
        /\ \A i \in 1..Len(calls) :
              /\ results[i].quality = calls[i].quality
              /\ calls[i].output = <<"scanned", "_", calls[i].quality, "_">> \o calls[i].input
        /\ Len(calls) > 0 =>
              LET q == calls[Len(calls)].quality
              IN  /\ Len(last_doc.page_levels) = last_env.pages
                  /\ \A n \in 1..Len(last_doc.page_levels) : last_doc.page_levels[n] = q
                  /\ last_env.kind = "ok" =>
                        last_doc.jpeg_quality =
                            (CASE q = "pristine" -> 95 [] q = "light" -> 85
                               [] q = "heavy" -> 70 [] OTHER -> 85)

\* C25 witness: a heavy document of the largest page count, processed and
\* recorded as heavy.
C25_Witness ==
    /\ caller = "batch" /\ Len(calls) = 1 /\ calls[1].quality = "heavy"
    /\ last_env.kind = "ok" /\ last_env.pages = MaxPages
    /\ last_doc.page_levels[MaxPages] = "heavy" /\ last_doc.jpeg_quality = 70
    /\ results[1].quality = "heavy"

\* The draws of kind fn in the log of the call.
DrawsOf(fn) == {k \in 1..Len(p_draws) : p_draws[k].fn = fn}

\* C26 as stated: one angle is drawn for a document and applied to all
\* its pages.
C26_OneAnglePerDocument ==
    (ppc = "returned" /\ p_file.state = "written") =>
        /\ Cardinality(DrawsOf("random.uniform")) <= 1
        /\ \A i, j \in 1..Len(p_file.pages) :
              p_file.pages[i].angle = p_file.pages[j].angle

\* C26, amended: at light and heavy the rotation angle is drawn once for
\* each page, within +/- the rotation bound of the level, and applied to that
\* page; noise is drawn once for each page as well, before the angle.
C26_AnglePerPage ==
    (ppc = "returned" /\ p_file.state = "written" /\ p_quality \in {"light", "heavy"}) =>
        /\ Len(p_draws) = 2 * Len(p_file.pages)
        /\ \A i \in 1..Len(p_file.pages) :
              /\ p_draws[2 * i - 1] = [fn |-> "np.random.randint", page |-> i, value |-> 0]
              /\ p_draws[2 * i].fn = "random.uniform" /\ p_draws[2 * i].page = i
              /\ p_file.pages[i].rotated
              /\ p_file.pages[i].angle = p_draws[2 * i].value
              /\ p_file.pages[i].angle \in
                    (-SCAN_EFFECTS[p_quality].rotation)..SCAN_EFFECTS[p_quality].rotation
        /\ \E doc \in {SavedDocument(ProcessedImages(p_env.pages, p_quality, a), p_quality) :
                          a \in PageAngles(p_env.pages, p_quality)} :
              (p_env.pages > 1 => doc.pages[1].angle # doc.pages[2].angle)

\* C26 witness: a written light document whose first two pages were
\* rotated by different angles.
C26_Witness ==
    /\ ppc = "returned" /\ p_file.state = "written" /\ p_quality = "light"
    /\ Len(p_file.pages) >= 2
    /\ p_file.pages[1].angle = -50 /\ p_file.pages[2].angle = 50
    /\ Cardinality(DrawsOf("random.uniform")) = Len(p_file.pages)

C27_CountsMatchResults ==
    caller = "batch" =>
        /\ processed_count + failed_count = Len(results)
        /\ processed_count = Cardinality({i \in 1..Len(results) : results[i].success})
        /\ Len(results) <= Len(selected)
        /\ pc = "done" =>
              /\ processed_count + failed_count = Len(selected)
              /\ Len(results) = Len(selected)
              /\ \A i \in 1..Len(selected) : results[i].input = selected[i]

\* C27 witness: in the middle of a batch of two, one failure recorded and
\* one document still to come.
C27_Witness ==
    /\ caller = "batch" /\ pc = "loop" /\ Len(selected) = 2 /\ Len(results) = 1
    /\ ~results[1].success /\ failed_count = 1 /\ processed_count = 0

\* C30: on the same candidates, percentage, mode, draws and process_pdf
\* outcomes the command-line loop and the notebook loop select the same
\* documents, give them the same levels and output names, attempt the same
\* documents and end with the same counts.
C30_LoopsEquivalent ==
    (l_pc \in {"loop", "done"} /\ l_pdfs # << >>) =>
        /\ cli.calls = nb.calls
        /\ cli.processed_count = nb.processed_count
        /\ cli.failed_count = nb.failed_count
        /\ l_pc = "done" => cli.pc = "done"

\* The two loops agree for as long as main has not been ended by an
\* exception, and main is ended only by the stat() of a file that a
\* successful process_pdf did not write.
LoopsAgreeUntilRaise ==
    /\ (l_pc \in {"loop", "done"} /\ cli.pc \in {"loop", "done"}) =>
          /\ cli.calls = nb.calls /\ cli.files = nb.files
          /\ cli.done_count = nb.done_count
          /\ cli.processed_count = nb.processed_count
          /\ cli.failed_count = nb.failed_count
    /\ nb.pc # "raised"

====
